---- MODULE Spec2Model ----
(***************************************************************************)
(* Model of the text-chunking engine of project/src/embeddings/chunking.py *)
(* (normalize_whitespace, split_into_segments, build_chunks_from_segments, *)
(* chunk_page_text).                                                       *)
(*                                                                         *)
(* A Python str is a sequence of one-character strings.  The alphabet is   *)
(* reduced to one letter, the three whitespace characters the code names   *)
(* or produces, and one symbol K that stands for a whole heading keyword   *)
(* (CLAUSULA / ARTICULO in any case and accentuation); K is a word         *)
(* character, so that the word boundary \b of _HEADING_REGEX is decided by *)
(* the character that follows it.                                          *)
(***************************************************************************)
EXTENDS Integers, Sequences, FiniteSets, TLC

----------------------------------------------------------------------------
(* Bounds of the model                                                     *)

MaxTextLen == 6
MaxSegs == 4
MaxMaxChars == 8
MaxMinChars == 8
MaxOverlap == 2
MaxSeqTextLen == 4
MaxSeqSegs == 2
MaxRawTextLen == 3
MaxRawSegs == 3
MaxRawChars == 4
MaxRawOverlap == 1

----------------------------------------------------------------------------
(* Characters and Python string primitives                                 *)

SP == " "
TAB == "\t"
NL == "\n"
LETTER == "a"
KEYWORD == "K"

Chars == {LETTER, KEYWORD, SP, TAB, NL}

\* str.isspace for one character
IsSpace(c) == c \in {SP, TAB, NL}

\* a character matched by \w
IsWord(c) == c \in {LETTER, KEYWORD}

Min(a, b) == IF a < b THEN a ELSE b

\* str.lstrip()
RECURSIVE LStrip(_)
LStrip(s) == IF s # <<>> /\ IsSpace(Head(s)) THEN LStrip(Tail(s)) ELSE s

\* str.rstrip()
RECURSIVE RStrip(_)
RStrip(s) ==
    IF s # <<>> /\ IsSpace(s[Len(s)]) THEN RStrip(SubSeq(s, 1, Len(s) - 1)) ELSE s

\* str.strip()
Strip(s) == LStrip(RStrip(s))

\* sep.join(parts)
RECURSIVE Join(_, _)
Join(sep, parts) ==
    IF parts = <<>> THEN <<>>
    ELSE IF Len(parts) = 1 THEN parts[1]
    ELSE parts[1] \o sep \o Join(sep, Tail(parts))

\* str.splitlines() for the line break \n: no empty last line after a final \n
RECURSIVE SplitLinesFrom(_, _)
SplitLinesFrom(s, cur) ==
    IF s = <<>> THEN (IF cur = <<>> THEN <<>> ELSE <<cur>>)
    ELSE IF Head(s) = NL THEN <<cur>> \o SplitLinesFrom(Tail(s), <<>>)
    ELSE SplitLinesFrom(Tail(s), Append(cur, Head(s)))

splitlines(s) == SplitLinesFrom(s, <<>>)

----------------------------------------------------------------------------
(* normalize_whitespace                                                    *)

\* text.replace("\t", " ")
ReplaceTabs(s) == [i \in 1..Len(s) |-> IF s[i] = TAB THEN SP ELSE s[i]]

\* re.sub(r"[ ]{2,}", " ", text): of a run of spaces only the first is kept
RECURSIVE CollapseSpacesFrom(_, _)
CollapseSpacesFrom(s, i) ==
    IF i > Len(s) THEN <<>>
    ELSE (IF s[i] = SP /\ i > 1 /\ s[i - 1] = SP THEN <<>> ELSE <<s[i]>>)
         \o CollapseSpacesFrom(s, i + 1)

CollapseSpaces(s) == CollapseSpacesFrom(s, 1)

\* re.sub(r"\n{3,}", "\n\n", text): of a run of newlines the first two are kept
RECURSIVE CollapseNewlinesFrom(_, _)
CollapseNewlinesFrom(s, i) ==
    IF i > Len(s) THEN <<>>
    ELSE (IF s[i] = NL /\ i > 2 /\ s[i - 1] = NL /\ s[i - 2] = NL
          THEN <<>> ELSE <<s[i]>>)
         \o CollapseNewlinesFrom(s, i + 1)

CollapseNewlines(s) == CollapseNewlinesFrom(s, 1)

\* tabs replaced after the runs of spaces were collapsed
normalize_whitespace_tabs_last(text) ==
    Strip(ReplaceTabs(CollapseNewlines(CollapseSpaces(text))))

\* each statement binds its result before the next one runs
normalize_whitespace(text) ==
    CHOOSE stripped \in
        { Strip(newlines) : newlines \in
            { CollapseNewlines(spaces) : spaces \in
                { CollapseSpaces(tabs) : tabs \in { ReplaceTabs(text) } } } } :
        TRUE

----------------------------------------------------------------------------
(* split_into_segments                                                     *)

\* _HEADING_REGEX.match(line): ^\s*(keyword)\b
HeadingMatch(line) ==
    LET rest == LStrip(line)
    IN /\ rest # <<>>
       /\ Head(rest) = KEYWORD
       /\ (Len(rest) = 1 \/ ~IsWord(rest[2]))

\* flush_segment(): the segments list after the call
flush_segment(segs, current_lines) ==
    IF current_lines # <<>>
    THEN LET segment == Strip(Join(<<NL>>, current_lines))
         IN IF segment # <<>> THEN Append(segs, segment) ELSE segs
    ELSE segs

\* the blank test made on the raw line: "if not raw_line"
SegmentLine_raw_blank(st, raw_line) ==
    LET line == RStrip(raw_line)
    IN IF raw_line = <<>>
       THEN [segments |-> flush_segment(st.segments, st.current_lines),
             current_lines |-> <<>>]
       ELSE IF HeadingMatch(line) /\ st.current_lines # <<>>
       THEN [segments |-> flush_segment(st.segments, st.current_lines),
             current_lines |-> <<line>>]
       ELSE [segments |-> st.segments,
             current_lines |-> Append(st.current_lines, line)]

\* the heading branch empties the buffer as the blank branch does
SegmentLine_heading_lost(st, raw_line) ==
    LET line == RStrip(raw_line)
    IN IF Strip(line) = <<>>
       THEN [segments |-> flush_segment(st.segments, st.current_lines),
             current_lines |-> <<>>]
       ELSE IF HeadingMatch(line) /\ st.current_lines # <<>>
       THEN [segments |-> flush_segment(st.segments, st.current_lines),
             current_lines |-> <<>>]
       ELSE [segments |-> st.segments,
             current_lines |-> Append(st.current_lines, line)]

\* without the heading branch: a heading is appended as any other line
SegmentLine_no_heading_split(st, raw_line) ==
    LET line == RStrip(raw_line)
    IN IF Strip(line) = <<>>
       THEN [segments |-> flush_segment(st.segments, st.current_lines),
             current_lines |-> <<>>]
       ELSE [segments |-> st.segments,
             current_lines |-> Append(st.current_lines, line)]

\* one iteration of the loop over lines; st = [segments, current_lines]
SegmentLine(st, raw_line) ==
    LET line == RStrip(raw_line)
    IN IF Strip(line) = <<>>
       THEN [segments |-> flush_segment(st.segments, st.current_lines),
             current_lines |-> <<>>]
       ELSE IF HeadingMatch(line) /\ st.current_lines # <<>>
       THEN [segments |-> flush_segment(st.segments, st.current_lines),
             current_lines |-> <<line>>]
       ELSE [segments |-> st.segments,
             current_lines |-> Append(st.current_lines, line)]

SegmentInit == [segments |-> <<>>, current_lines |-> <<>>]

RECURSIVE SegmentLines(_, _)
SegmentLines(st, lines) ==
    IF lines = <<>> THEN st
    ELSE SegmentLines(SegmentLine(st, Head(lines)), Tail(lines))

split_into_segments(page_text) ==
    LET text == normalize_whitespace(page_text)
    IN IF text = <<>> THEN <<>>
       ELSE LET st == SegmentLines(SegmentInit, splitlines(text))
            IN flush_segment(st.segments, st.current_lines)

----------------------------------------------------------------------------
(* build_chunks_from_segments                                              *)

\* ChunkingConfig(): the defaults of the dataclass
DefaultMaxChars == 1500
DefaultMinChars == 400
DefaultOverlapSegments == 1

DefaultConfig ==
    [max_chars |-> DefaultMaxChars, min_chars |-> DefaultMinChars,
     overlap_segments |-> DefaultOverlapSegments]

\* the value None of the optional argument config
None == [none |-> TRUE]

\* "if config is None: config = ChunkingConfig()"
config_or_default(c) == IF c = None THEN DefaultConfig ELSE c

\* the separator "\n\n" between the segments of a chunk
SEP == <<NL, NL>>

\* lst[-n:] for n > 0: the last n elements, the whole list when n >= len(lst)
LastN(lst, n) == SubSeq(lst, IF Len(lst) > n THEN Len(lst) - n + 1 ELSE 1, Len(lst))

\* the call made without its argument, current_length_with(): the buffer is
\* measured without the segment
current_length_with_no_segment(current_segments, segment) ==
    Len(Join(SEP, current_segments))

\* the joined string is trimmed before it is measured: len(joined.strip())
current_length_with_trimmed(current_segments, segment) ==
    Len(Strip(Join(SEP, Append(current_segments, segment))))

\* current_length_with(segment): length of the buffer joined with the segment
current_length_with(current_segments, segment) ==
    Len(Join(SEP, Append(current_segments, segment)))

\* the chunk replaces the list: "chunks = [chunk_text]" for chunks.append
close_chunk_list_replaced(chunks, current_segments) ==
    LET chunk_text == Strip(Join(SEP, current_segments))
    IN IF chunk_text # <<>> THEN <<chunk_text>> ELSE chunks

\* chunks after "chunk_text = join(...).strip(); if chunk_text: chunks.append"
close_chunk(chunks, current_segments) ==
    LET chunk_text == Strip(Join(SEP, current_segments))
    IN IF chunk_text # <<>> THEN Append(chunks, chunk_text) ELSE chunks

\* State of the packer: chunks and current_segments are the two lists of the
\* code.  current_src and chunk_src record, for each reference held in
\* current_segments and for each chunk appended to chunks, the positions in
\* the argument list of the segments it is made of.
PackInit ==
    [chunks |-> <<>>, current_segments |-> <<>>,
     chunk_src |-> <<>>, current_src |-> <<>>]

\* overlap taken from the front of the buffer: current_segments[:overlap_segments]
overlap_of_front(lst, overlap_segments) ==
    IF overlap_segments > 0
    THEN SubSeq(lst, 1, Min(overlap_segments, Len(lst)))
    ELSE <<>>

\* the whole buffer is carried over: current_segments[:]
overlap_of_whole_buffer(lst, overlap_segments) ==
    IF overlap_segments > 0 THEN lst ELSE <<>>

\* the slice taken without the test "overlap_segments > 0": lst[-0:] is the
\* whole list and lst[-k:] for k < 0 drops the first -k elements
overlap_of_unguarded(lst, overlap_segments) ==
    IF overlap_segments > 0 THEN LastN(lst, overlap_segments)
    ELSE SubSeq(lst, Min(Len(lst), 0 - overlap_segments) + 1, Len(lst))

\* "# Prepare overlap": current_segments[-overlap_segments:] or []
overlap_of(lst, overlap_segments) ==
    IF overlap_segments > 0 THEN LastN(lst, overlap_segments) ELSE <<>>

\* the new buffer built as [seg] + overlap
PackSegment_seg_first(st, seg, i, cfg) ==
    IF st.current_segments # <<>>
       /\ current_length_with(st.current_segments, seg) > cfg.max_chars
    THEN LET closed == close_chunk(st.chunks, st.current_segments)
         IN [chunks |-> closed,
             current_segments |->
                 <<seg>> \o overlap_of(st.current_segments, cfg.overlap_segments),
             chunk_src |-> IF closed # st.chunks
                           THEN Append(st.chunk_src, st.current_src)
                           ELSE st.chunk_src,
             current_src |->
                 <<i>> \o overlap_of(st.current_src, cfg.overlap_segments)]
    ELSE [st EXCEPT !.current_segments = Append(@, seg),
                    !.current_src = Append(@, i)]

\* the length is compared with the wrong field: "> config.min_chars"
PackSegment_min_limit(st, seg, i, cfg) ==
    IF st.current_segments # <<>>
       /\ current_length_with(st.current_segments, seg) > cfg.min_chars
    THEN LET closed == close_chunk(st.chunks, st.current_segments)
         IN [chunks |-> closed,
             current_segments |->
                 Append(overlap_of(st.current_segments, cfg.overlap_segments), seg),
             chunk_src |-> IF closed # st.chunks
                           THEN Append(st.chunk_src, st.current_src)
                           ELSE st.chunk_src,
             current_src |->
                 Append(overlap_of(st.current_src, cfg.overlap_segments), i)]
    ELSE [st EXCEPT !.current_segments = Append(@, seg),
                    !.current_src = Append(@, i)]

\* a max_chars that is not positive is taken as "no limit"
PackSegment_limit_validated(st, seg, i, cfg) ==
    IF st.current_segments # <<>>
       /\ cfg.max_chars > 0
       /\ current_length_with(st.current_segments, seg) > cfg.max_chars
    THEN LET closed == close_chunk(st.chunks, st.current_segments)
         IN [chunks |-> closed,
             current_segments |->
                 Append(overlap_of(st.current_segments, cfg.overlap_segments), seg),
             chunk_src |-> IF closed # st.chunks
                           THEN Append(st.chunk_src, st.current_src)
                           ELSE st.chunk_src,
             current_src |->
                 Append(overlap_of(st.current_src, cfg.overlap_segments), i)]
    ELSE [st EXCEPT !.current_segments = Append(@, seg),
                    !.current_src = Append(@, i)]

\* the buffer is closed as soon as the limit is reached: ">=" for ">"
PackSegment_at_limit(st, seg, i, cfg) ==
    IF st.current_segments # <<>>
       /\ current_length_with(st.current_segments, seg) >= cfg.max_chars
    THEN LET closed == close_chunk(st.chunks, st.current_segments)
         IN [chunks |-> closed,
             current_segments |->
                 Append(overlap_of(st.current_segments, cfg.overlap_segments), seg),
             chunk_src |-> IF closed # st.chunks
                           THEN Append(st.chunk_src, st.current_src)
                           ELSE st.chunk_src,
             current_src |->
                 Append(overlap_of(st.current_src, cfg.overlap_segments), i)]
    ELSE [st EXCEPT !.current_segments = Append(@, seg),
                    !.current_src = Append(@, i)]

\* one iteration of "for seg in segments", seg being segments[i]
PackSegment(st, seg, i, cfg) ==
    IF st.current_segments # <<>>
       /\ current_length_with(st.current_segments, seg) > cfg.max_chars
    THEN LET closed == close_chunk(st.chunks, st.current_segments)
         IN [chunks |-> closed,
             current_segments |->
                 Append(overlap_of(st.current_segments, cfg.overlap_segments), seg),
             chunk_src |-> IF closed # st.chunks
                           THEN Append(st.chunk_src, st.current_src)
                           ELSE st.chunk_src,
             current_src |->
                 Append(overlap_of(st.current_src, cfg.overlap_segments), i)]
    ELSE [st EXCEPT !.current_segments = Append(@, seg),
                    !.current_src = Append(@, i)]

\* the remaining buffer is forgotten
PackFinalChunk_dropped(st) == st

\* "# Final chunk": the remaining buffer is closed
PackFinalChunk(st) ==
    IF st.current_segments # <<>>
    THEN LET closed == close_chunk(st.chunks, st.current_segments)
         IN [st EXCEPT !.chunks = closed,
                       !.chunk_src = IF closed # st.chunks
                                     THEN Append(@, st.current_src) ELSE @]
    ELSE st

\* the merge joins the two chunks with a single newline
MergeLast_one_newline(st, cfg) ==
    LET n == Len(st.chunks)
    IN IF n >= 2 /\ Len(st.chunks[n]) < cfg.min_chars
       THEN [st EXCEPT
               !.chunks = Append(SubSeq(@, 1, n - 2), @[n - 1] \o <<NL>> \o @[n]),
               !.chunk_src = Append(SubSeq(@, 1, n - 2), @[n - 1] \o @[n])]
       ELSE st

\* the merge is tried only when a third chunk exists: len(chunks) > 2
MergeLast_three(st, cfg) ==
    LET n == Len(st.chunks)
    IN IF n > 2 /\ Len(st.chunks[n]) < cfg.min_chars
       THEN [st EXCEPT
               !.chunks = Append(SubSeq(@, 1, n - 2), @[n - 1] \o SEP \o @[n]),
               !.chunk_src = Append(SubSeq(@, 1, n - 2), @[n - 1] \o @[n])]
       ELSE st

\* the merge leaves out the segments the last chunk had carried over
MergeLast_overlap_removed(st, cfg) ==
    LET n == Len(st.chunks)
    IN IF n >= 2 /\ Len(st.chunks[n]) < cfg.min_chars
       THEN LET m == IF cfg.overlap_segments > 0
                     THEN Min(cfg.overlap_segments, Len(st.chunk_src[n - 1]))
                     ELSE 0
                rest == SubSeq(st.current_segments, m + 1,
                               Len(st.current_segments))
                rest_src == SubSeq(st.current_src, m + 1, Len(st.current_src))
            IN [st EXCEPT
                  !.chunks = Append(SubSeq(@, 1, n - 2),
                                    @[n - 1] \o SEP \o Join(SEP, rest)),
                  !.chunk_src = Append(SubSeq(@, 1, n - 2),
                                       @[n - 1] \o rest_src)]
       ELSE st

\* the merge repeated while the last chunk is too small: "while" for "if"
RECURSIVE MergeLast_while(_, _)
MergeLast_while(st, cfg) ==
    LET n == Len(st.chunks)
    IN IF n >= 2 /\ Len(st.chunks[n]) < cfg.min_chars
       THEN MergeLast_while(
              [st EXCEPT
                 !.chunks = Append(SubSeq(@, 1, n - 2), @[n - 1] \o SEP \o @[n]),
                 !.chunk_src = Append(SubSeq(@, 1, n - 2), @[n - 1] \o @[n])],
              cfg)
       ELSE st

\* "# Merge last chunk if it's too small"
MergeLast(st, cfg) ==
    LET n == Len(st.chunks)
    IN IF n >= 2 /\ Len(st.chunks[n]) < cfg.min_chars
       THEN [st EXCEPT
               !.chunks = Append(SubSeq(@, 1, n - 2), @[n - 1] \o SEP \o @[n]),
               !.chunk_src = Append(SubSeq(@, 1, n - 2), @[n - 1] \o @[n])]
       ELSE st

RECURSIVE PackSegments(_, _, _, _)
PackSegments(st, segs, i, cfg) ==
    IF i > Len(segs) THEN st
    ELSE PackSegments(PackSegment(st, segs[i], i, cfg), segs, i + 1, cfg)

build_chunks_from_segments(segs, c) ==
    LET cfg == config_or_default(c)
    IN IF segs = <<>> THEN <<>>
       ELSE MergeLast(PackFinalChunk(PackSegments(PackInit, segs, 1, cfg)), cfg).chunks

chunk_page_text(page_text, c) ==
    LET segs == split_into_segments(page_text)
    IN IF segs = <<>> THEN <<>> ELSE build_chunks_from_segments(segs, c)

----------------------------------------------------------------------------
(* The calls: inputs, the program counter, and the steps of the two loops  *)

\* all strings of at most n characters
StringsUpTo(n) == UNION {[1..k -> Chars] : k \in 0..n}

\* all lists of at most n elements of S
ListsUpTo(S, n) == UNION {[1..k -> S] : k \in 0..n}

\* what the data model calls a segment: non-empty, trimmed, single spaces,
\* no tab, no line that is blank or ends with whitespace
IsSegment(s) ==
    /\ s # <<>>
    /\ Strip(s) = s
    /\ \A i \in 1..Len(s) : s[i] # TAB
    /\ \A i \in 1..(Len(s) - 1) :
          /\ ~(s[i] = SP /\ s[i + 1] = SP)
          /\ ~(s[i] = NL /\ s[i + 1] = NL)
          /\ ~(s[i] = SP /\ s[i + 1] = NL)

\* segments handed directly to build_chunks_from_segments
SegPool ==
    { <<LETTER>>, <<LETTER, KEYWORD>>, <<KEYWORD, NL, LETTER>> }

\* ChunkingConfig values (max_chars > 0, min_chars >= 0, overlap_segments >= 0)
Configs ==
    [max_chars : 1..MaxMaxChars, min_chars : 0..MaxMinChars,
     overlap_segments : 0..MaxOverlap]

\* the configs tried with every page text
PageConfigs ==
    { None,
      [max_chars |-> 1, min_chars |-> MaxMinChars, overlap_segments |-> 0],
      [max_chars |-> 4, min_chars |-> 3, overlap_segments |-> MaxOverlap] }

VARIABLES
    entry,        \* the function that was called
    page_text,    \* argument of chunk_page_text
    config,       \* argument config of the function that was called
    pc,           \* position in the code
    text,         \* split_into_segments: the normalized page_text
    lines,        \* split_into_segments: lines
    sg,           \* split_into_segments: [segments, current_lines]
    li,           \* split_into_segments: number of lines consumed by the loop
    segments,     \* result of split_into_segments / argument of the packer
    cfg,          \* build_chunks_from_segments: config
    pk,           \* build_chunks_from_segments: packer state
    si,           \* build_chunks_from_segments: number of segments consumed
    pre,          \* packer state at the end of the greedy pass
    result,       \* returned list of chunks
    shared,       \* a ChunkingConfig object that concurrent calls were given
    frames,       \* the locals of each of the concurrent calls
    gen,          \* the locals of a generator of chunk records
    kb,           \* the locals of vectorize_sample_kb
    crawl         \* the locals of paginate_contract_links

vars ==
    <<entry, page_text, config, pc, text, lines, sg, li, segments, cfg, pk, si,
      pre, result, shared, frames, gen, kb, crawl>>

\* no concurrent calls are running
NoThreads ==
    /\ shared = None
    /\ frames = <<>>

\* no caller of the chunker, no vectorization and no crawl is running
NoCallers ==
    /\ gen = None
    /\ kb = None
    /\ crawl = None

\* chunk_page_text(page_text, config) is called
InitPage ==
    /\ entry = "chunk_page_text"
    /\ page_text \in StringsUpTo(MaxTextLen)
    /\ config \in PageConfigs
    /\ cfg = None
    /\ pc = "split"
    /\ segments = <<>>

\* build_chunks_from_segments(segments, config) is called
InitPack ==
    /\ entry = "build_chunks_from_segments"
    /\ page_text = <<>>
    /\ config \in Configs \cup {None}
    /\ cfg = config
    /\ pc = "build"
    /\ segments \in ListsUpTo(SegPool, MaxSegs)

Init ==
    /\ (InitPage \/ InitPack)
    /\ text = <<>>
    /\ lines = <<>>
    /\ sg = SegmentInit
    /\ li = 0
    /\ pk = PackInit
    /\ si = 0
    /\ pre = PackInit
    /\ result = <<>>
    /\ NoThreads
    /\ NoCallers

\* split_into_segments, lines 83-89: normalize, return [] or split the lines
SplitStart ==
    /\ pc = "split"
    /\ text' = normalize_whitespace(page_text)
    /\ IF text' = <<>>
       THEN /\ segments' = <<>>
            /\ pc' = "split_ret"
            /\ UNCHANGED lines
       ELSE /\ lines' = splitlines(text')
            /\ pc' = "lines"
            /\ UNCHANGED segments
    /\ sg' = SegmentInit
    /\ li' = 0
    /\ UNCHANGED <<entry, page_text, config, cfg, pk, si, pre, result>>
    /\ UNCHANGED <<shared, frames, gen, kb, crawl>>

\* split_into_segments, lines 98-112: one line
SplitLine ==
    /\ pc = "lines"
    /\ li < Len(lines)
    /\ sg' = SegmentLine(sg, lines[li + 1])
    /\ li' = li + 1
    /\ UNCHANGED <<entry, page_text, config, pc, text, lines, segments, cfg, pk,
                   si, pre, result>>
    /\ UNCHANGED <<shared, frames, gen, kb, crawl>>

\* split_into_segments, lines 114-117: final flush and return
SplitReturn ==
    /\ pc = "lines"
    /\ li = Len(lines)
    /\ segments' = flush_segment(sg.segments, sg.current_lines)
    /\ pc' = "split_ret"
    /\ UNCHANGED <<entry, page_text, config, text, lines, sg, li, cfg, pk, si,
                   pre, result>>
    /\ UNCHANGED <<shared, frames, gen, kb, crawl>>

\* without segments the page itself is returned as the only chunk
ChunkPageEmpty_whole_page ==
    /\ pc = "split_ret"
    /\ segments = <<>>
    /\ result' = <<page_text>>
    /\ pc' = "done"
    /\ UNCHANGED <<entry, page_text, config, text, lines, sg, li, segments, cfg,
                   pk, si, pre>>
    /\ UNCHANGED <<shared, frames, gen, kb, crawl>>

\* chunk_page_text, lines 222-223: no segments, return []
ChunkPageEmpty ==
    /\ pc = "split_ret"
    /\ segments = <<>>
    /\ result' = <<>>
    /\ pc' = "done"
    /\ UNCHANGED <<entry, page_text, config, text, lines, sg, li, segments, cfg,
                   pk, si, pre>>
    /\ UNCHANGED <<shared, frames, gen, kb, crawl>>

\* the config is not handed on: build_chunks_from_segments(segments)
ChunkPageBuild_no_config ==
    /\ pc = "split_ret"
    /\ segments # <<>>
    /\ cfg' = None
    /\ pc' = "build"
    /\ UNCHANGED <<entry, page_text, config, text, lines, sg, li, segments, pk,
                   si, pre, result>>
    /\ UNCHANGED <<shared, frames, gen, kb, crawl>>

\* chunk_page_text, line 224: build_chunks_from_segments(segments, config=config)
ChunkPageBuild ==
    /\ pc = "split_ret"
    /\ segments # <<>>
    /\ cfg' = config
    /\ pc' = "build"
    /\ UNCHANGED <<entry, page_text, config, text, lines, sg, li, segments, pk,
                   si, pre, result>>
    /\ UNCHANGED <<shared, frames, gen, kb, crawl>>

\* the list of chunks is not created anew by the call
BuildStart_chunks_kept ==
    /\ pc = "build"
    /\ cfg' = config_or_default(cfg)
    /\ IF segments = <<>>
       THEN /\ result' = <<>>
            /\ pc' = "done"
       ELSE /\ pc' = "pack"
            /\ UNCHANGED result
    /\ pk' = [PackInit EXCEPT !.chunks = pk.chunks, !.chunk_src = pk.chunk_src]
    /\ si' = 0
    /\ UNCHANGED <<entry, page_text, config, text, lines, sg, li, segments, pre>>
    /\ UNCHANGED <<shared, frames, gen, kb, crawl>>

\* build_chunks_from_segments, lines 146-153: default config, return [] or
\* start the loop
BuildStart ==
    /\ pc = "build"
    /\ cfg' = config_or_default(cfg)
    /\ IF segments = <<>>
       THEN /\ result' = <<>>
            /\ pc' = "done"
       ELSE /\ pc' = "pack"
            /\ UNCHANGED result
    /\ pk' = PackInit
    /\ si' = 0
    /\ UNCHANGED <<entry, page_text, config, text, lines, sg, li, segments, pre>>
    /\ UNCHANGED <<shared, frames, gen, kb, crawl>>

\* the loop written as "while segments: seg = segments.pop(0)": the caller's
\* list is consumed
PackStep_segments_popped ==
    /\ pc = "pack"
    /\ segments # <<>>
    /\ pk' = PackSegment(pk, Head(segments), si + 1, cfg)
    /\ segments' = Tail(segments)
    /\ si' = IF Len(segments) = 1 THEN 0 ELSE si + 1
    /\ UNCHANGED <<entry, page_text, config, pc, text, lines, sg, li, cfg, pre,
                   result>>
    /\ UNCHANGED <<shared, frames, gen, kb, crawl>>

\* build_chunks_from_segments, lines 163-179: one segment
PackStep ==
    /\ pc = "pack"
    /\ si < Len(segments)
    /\ pk' = PackSegment(pk, segments[si + 1], si + 1, cfg)
    /\ si' = si + 1
    /\ UNCHANGED <<entry, page_text, config, pc, text, lines, sg, li, segments,
                   cfg, pre, result>>
    /\ UNCHANGED <<shared, frames, gen, kb, crawl>>

\* build_chunks_from_segments, lines 181-185: the final chunk
PackFinal ==
    /\ pc = "pack"
    /\ si = Len(segments)
    /\ pk' = PackFinalChunk(pk)
    /\ pre' = pk'
    /\ pc' = "merge"
    /\ UNCHANGED <<entry, page_text, config, text, lines, sg, li, segments, cfg,
                   si, result>>
    /\ UNCHANGED <<shared, frames, gen, kb, crawl>>

\* the merge test without "len(chunks) >= 2": chunks[-1] or chunks[-2] raises
\* IndexError when the list is too short
MergeReturn_no_count_test ==
    /\ pc = "merge"
    /\ IF Len(pk.chunks) = 0
          \/ (Len(pk.chunks) = 1 /\ Len(pk.chunks[1]) < cfg.min_chars)
       THEN /\ pc' = "raised"
            /\ UNCHANGED <<pk, result>>
       ELSE /\ pk' = MergeLast(pk, cfg)
            /\ result' = pk'.chunks
            /\ pc' = "done"
    /\ UNCHANGED <<entry, page_text, config, text, lines, sg, li, segments, cfg,
                   si, pre>>
    /\ UNCHANGED <<shared, frames, gen, kb, crawl>>

\* build_chunks_from_segments, lines 187-194: merge step and return
MergeReturn ==
    /\ pc = "merge"
    /\ pk' = MergeLast(pk, cfg)
    /\ result' = pk'.chunks
    /\ pc' = "done"
    /\ UNCHANGED <<entry, page_text, config, text, lines, sg, li, segments, cfg,
                   si, pre>>
    /\ UNCHANGED <<shared, frames, gen, kb, crawl>>

Next ==
    \/ SplitStart
    \/ SplitLine
    \/ SplitReturn
    \/ ChunkPageEmpty
    \/ ChunkPageBuild
    \/ BuildStart
    \/ PackStep
    \/ PackFinal
    \/ MergeReturn

Spec == Init /\ [][Next]_vars

----------------------------------------------------------------------------
(* Properties of build_chunks_from_segments                                *)

Done == pc = "done"

\* build_chunks_from_segments has returned from a non-empty list of segments
Packed == Done /\ segments # <<>>

\* the segments at the positions src of the argument list
SegsAt(src) == [j \in 1..Len(src) |-> segments[src[j]]]

\* every returned chunk is the two-newline join of the segments recorded for it
Materialized ==
    /\ Len(pk.chunk_src) = Len(result)
    /\ \A i \in 1..Len(result) : result[i] = Join(SEP, SegsAt(pk.chunk_src[i]))

\* the trailing merge changed the list of chunks
MergeFired == Len(pre.chunks) = Len(result) + 1

\* src is a non-empty run of consecutive input positions
IsRun(src) ==
    /\ src # <<>>
    /\ \A j \in 1..(Len(src) - 1) : src[j + 1] = src[j] + 1

\* C1: with overlap_segments = k > 0 and at least two chunks returned, the last
\* min(k, number of segments of chunk i) segments of chunk i are, verbatim and
\* in the same order, the leading segments of chunk i+1, for every pair of
\* consecutive chunks (a merged trailing chunk included).
C1_OverlapCarriedOver ==
    (Packed /\ cfg.overlap_segments > 0 /\ Len(result) >= 2) =>
        /\ Materialized
        /\ \A i \in 1..(Len(result) - 1) :
              LET a == pk.chunk_src[i]
                  b == pk.chunk_src[i + 1]
                  m == Min(cfg.overlap_segments, Len(a))
              IN /\ Len(b) >= m
                 /\ SubSeq(b, 1, m) = SubSeq(a, Len(a) - m + 1, Len(a))
                 /\ SubSeq(SegsAt(b), 1, m)
                       = SubSeq(SegsAt(a), Len(a) - m + 1, Len(a))

\* three chunks or more, the last one merged, and a chunk with more segments
\* than the overlap whose segments differ
C1_Witness ==
    /\ Packed
    /\ cfg.overlap_segments > 0
    /\ Len(result) >= 3
    /\ MergeFired
    /\ \E i \in 1..(Len(result) - 1) :
          /\ Len(pk.chunk_src[i]) > cfg.overlap_segments
          /\ segments[pk.chunk_src[i][1]] # segments[pk.chunk_src[i][2]]

\* C2: if the greedy pass yields n >= 2 chunks and the last one has fewer than
\* min_chars characters, the returned list has n-1 chunks: the first n-2
\* unchanged, the last one chunk n-1, the two-newline separator, chunk n.
C2_TrailingMerge ==
    LET n == Len(pre.chunks)
    IN (Packed /\ n >= 2 /\ Len(pre.chunks[n]) < cfg.min_chars) =>
          /\ Len(result) = n - 1
          /\ \A i \in 1..(n - 2) : result[i] = pre.chunks[i]
          /\ result[n - 1] = pre.chunks[n - 1] \o <<NL, NL>> \o pre.chunks[n]

C2_Witness ==
    /\ Packed
    /\ Len(pre.chunks) >= 3
    /\ Len(pre.chunks[Len(pre.chunks)]) < cfg.min_chars
    /\ Len(result) = Len(pre.chunks) - 1

\* C3 as stated: in the returned list no chunk other than possibly the first
\* has fewer than min_chars characters.
C3_NoShortChunkAfterFirst ==
    Packed => \A i \in 2..Len(result) : Len(result[i]) >= cfg.min_chars

\* C3 amended: when two or more chunks are returned and the trailing merge did
\* not fire, the last chunk has at least min_chars characters (only the final
\* chunk of the greedy pass is ever merged).
C3_LastChunkMergedIfShort ==
    (Packed /\ Len(result) >= 2 /\ ~MergeFired) =>
        /\ result = pre.chunks
        /\ Len(result[Len(result)]) >= cfg.min_chars

\* no merge, a last chunk of at least min_chars, and a middle chunk below it
C3_Witness ==
    /\ Packed
    /\ Len(result) >= 3
    /\ ~MergeFired
    /\ cfg.min_chars > 0
    /\ Len(result[Len(result)]) >= cfg.min_chars
    /\ Len(result[2]) < cfg.min_chars

\* C4 as stated: every chunk is non-empty after trimming, the input position
\* of the last segment of a chunk strictly increases from chunk to chunk, and
\* inside a chunk the segments appear in input order.
C4_DocumentOrder ==
    Packed =>
        /\ Materialized
        /\ \A i \in 1..Len(result) : Strip(result[i]) # <<>>
        /\ \A i \in 1..(Len(result) - 1) :
              pk.chunk_src[i][Len(pk.chunk_src[i])]
                 < pk.chunk_src[i + 1][Len(pk.chunk_src[i + 1])]
        /\ \A i \in 1..Len(result) :
              \A j \in 1..(Len(pk.chunk_src[i]) - 1) :
                 pk.chunk_src[i][j] <= pk.chunk_src[i][j + 1]

\* C4 amended: every chunk is non-empty after trimming, the position of the
\* last segment strictly increases from chunk to chunk, every chunk that is
\* not the product of the trailing merge is a run of consecutive input
\* positions, and a merged trailing chunk is two such runs one after the other.
C4_DocumentOrderButMerged ==
    Packed =>
        /\ Materialized
        /\ \A i \in 1..Len(result) : Strip(result[i]) # <<>>
        /\ \A i \in 1..(Len(result) - 1) :
              pk.chunk_src[i][Len(pk.chunk_src[i])]
                 < pk.chunk_src[i + 1][Len(pk.chunk_src[i + 1])]
        /\ \A i \in 1..Len(result) :
              IF MergeFired /\ i = Len(result)
              THEN /\ IsRun(pre.chunk_src[i])
                   /\ IsRun(pre.chunk_src[i + 1])
                   /\ pk.chunk_src[i] = pre.chunk_src[i] \o pre.chunk_src[i + 1]
              ELSE IsRun(pk.chunk_src[i])

\* a merged trailing chunk that repeats two overlap segments, after two chunks
C4_Witness ==
    /\ Packed
    /\ Len(result) >= 2
    /\ MergeFired
    /\ cfg.overlap_segments = 2
    /\ Len(pre.chunk_src[Len(result)]) >= 3
    /\ ~IsRun(pk.chunk_src[Len(result)])

\* C6: a single segment longer than max_chars, passed alone, yields exactly
\* one chunk equal to that segment.
C6_OversizedSingleSegment ==
    (Done /\ Len(segments) = 1 /\ Len(segments[1]) > cfg.max_chars) =>
        result = <<segments[1]>>

C6_Witness ==
    /\ Done
    /\ entry = "build_chunks_from_segments"
    /\ Len(segments) = 1
    /\ Len(segments[1]) > cfg.max_chars + 1
    /\ result = <<segments[1]>>

----------------------------------------------------------------------------
(* Properties of normalize_whitespace, split_into_segments, chunk_page_text *)

\* the call of normalize_whitespace (line 83) is behind
PastNormalize == entry = "chunk_page_text" /\ pc # "split"

\* normalize_whitespace has just returned text to split_into_segments
Normalized == PastNormalize /\ li = 0 /\ pc \in {"lines", "split_ret"}

\* split_into_segments has just returned segments to chunk_page_text
SplitReturned == entry = "chunk_page_text" /\ pc = "split_ret"

NonBlankLine(l) == Strip(l) # <<>>

StripAll(ls) == [i \in 1..Len(ls) |-> Strip(ls[i])]

\* the lines of a list of segments, read in segment order
RECURSIVE LinesOf(_)
LinesOf(segs) ==
    IF segs = <<>> THEN <<>> ELSE splitlines(Head(segs)) \o LinesOf(Tail(segs))

AllSpace(s) == \A i \in 1..Len(s) : IsSpace(s[i])

\* C5: the lines of the segments returned by split_into_segments, read in
\* segment order, are the non-blank lines of the normalized text in their
\* original order, up to trimming: none is lost, duplicated or reordered.
C5_LinesPreserved ==
    SplitReturned =>
        StripAll(LinesOf(segments))
            = StripAll(SelectSeq(splitlines(text), NonBlankLine))

\* three segments, cut by a blank line and by a heading after a non-blank line
C5_Witness ==
    /\ SplitReturned
    /\ Len(segments) >= 3
    /\ \E i \in 1..Len(lines) : ~NonBlankLine(lines[i])
    /\ \E i \in 2..Len(lines) : HeadingMatch(lines[i]) /\ NonBlankLine(lines[i - 1])

\* C7: normalize_whitespace is idempotent, and its result has no tab, no run
\* of two spaces, no run of three newlines, no leading or trailing whitespace.
C7_NormalizeIdempotent ==
    Normalized =>
        /\ normalize_whitespace(text) = text
        /\ \A i \in 1..Len(text) : text[i] # TAB
        /\ \A i \in 1..(Len(text) - 1) : ~(text[i] = SP /\ text[i + 1] = SP)
        /\ \A i \in 1..(Len(text) - 2) :
              ~(text[i] = NL /\ text[i + 1] = NL /\ text[i + 2] = NL)
        /\ text # <<>> => ~IsSpace(text[1]) /\ ~IsSpace(text[Len(text)])

\* a text with a tab, a run of three newlines and an outer space was normalized
C7_Witness ==
    /\ Normalized
    /\ text # <<>>
    /\ \E i \in 1..Len(page_text) : page_text[i] = TAB
    /\ \E i \in 1..(Len(page_text) - 2) :
          page_text[i] = NL /\ page_text[i + 1] = NL /\ page_text[i + 2] = NL
    /\ IsSpace(page_text[1])

\* C8: for a text that is empty after normalization (empty or whitespace
\* only) split_into_segments and chunk_page_text return an empty sequence;
\* build_chunks_from_segments returns an empty sequence for an empty list.
C8_EmptyInput ==
    /\ PastNormalize => (text = <<>> <=> AllSpace(page_text))
    /\ (PastNormalize /\ AllSpace(page_text)) =>
          /\ pc \in {"split_ret", "done"}
          /\ segments = <<>>
          /\ Done => result = <<>>
    /\ (entry = "build_chunks_from_segments" /\ segments = <<>> /\ pc # "build") =>
          Done /\ result = <<>>

\* chunk_page_text has returned for a text of three whitespace characters
C8_Witness ==
    /\ Done
    /\ entry = "chunk_page_text"
    /\ Len(page_text) >= 3
    /\ AllSpace(page_text)
    /\ \E i \in 1..Len(page_text) : page_text[i] = NL
    /\ segments = <<>>
    /\ result = <<>>

\* C9: every segment returned by split_into_segments is non-empty, has no
\* leading or trailing whitespace and no interior blank line.
C9_SegmentsWellFormed ==
    SplitReturned =>
        \A i \in 1..Len(segments) :
            /\ segments[i] # <<>>
            /\ Strip(segments[i]) = segments[i]
            /\ \A j \in 1..Len(splitlines(segments[i])) :
                  NonBlankLine(splitlines(segments[i])[j])
            /\ IsSegment(segments[i])

\* two segments were returned for a text with two consecutive blank lines
C9_Witness ==
    /\ SplitReturned
    /\ Len(segments) >= 2
    /\ \E i \in 1..(Len(lines) - 1) :
          ~NonBlankLine(lines[i]) /\ ~NonBlankLine(lines[i + 1])

\* C10: chunk_page_text(text, config) equals
\* build_chunks_from_segments(split_into_segments(text), config), and is empty
\* whenever segmentation yields no segments.
C10_PageEqualsSplitThenBuild ==
    (entry = "chunk_page_text" /\ Done) =>
        /\ result = build_chunks_from_segments(split_into_segments(page_text), config)
        /\ split_into_segments(page_text) = <<>> => result = <<>>

\* chunk_page_text returned two chunks or more under a config that was given
C10_Witness ==
    /\ entry = "chunk_page_text"
    /\ Done
    /\ config # None
    /\ Len(result) >= 2
    /\ Len(segments) > Len(result)

----------------------------------------------------------------------------
(* Calls made one after the other                                          *)

\* The variables of the machine outlive a call: when a new call starts they
\* still hold what the calls before left in them, and the code of the new
\* call has to (re)initialize whatever it reads.

\* page texts of the calls in sequence: letters and newlines
SeqTexts == UNION {[1..k -> {LETTER, NL}] : k \in 0..MaxSeqTextLen}

\* segment lists of the calls in sequence
SeqSegLists == ListsUpTo({<<LETTER>>, <<LETTER, KEYWORD>>}, MaxSeqSegs)

SeqConfigs ==
    { None, [max_chars |-> 1, min_chars |-> 3, overlap_segments |-> 1] }

InitSeq ==
    /\ \/ /\ entry = "chunk_page_text"
          /\ page_text \in SeqTexts
          /\ config \in SeqConfigs
          /\ cfg = None
          /\ pc = "split"
          /\ segments = <<>>
       \/ /\ entry = "build_chunks_from_segments"
          /\ page_text = <<>>
          /\ config \in SeqConfigs
          /\ cfg = config
          /\ pc = "build"
          /\ segments \in SeqSegLists
    /\ text = <<>>
    /\ lines = <<>>
    /\ sg = SegmentInit
    /\ li = 0
    /\ pk = PackInit
    /\ si = 0
    /\ pre = PackInit
    /\ result = <<>>
    /\ NoThreads
    /\ NoCallers

\* after a call has returned, chunk_page_text is called
CallPage ==
    /\ pc = "done"
    /\ entry' = "chunk_page_text"
    /\ page_text' \in SeqTexts
    /\ config' \in SeqConfigs
    /\ pc' = "split"
    /\ UNCHANGED <<text, lines, sg, li, segments, cfg, pk, si, pre, result>>
    /\ UNCHANGED <<shared, frames, gen, kb, crawl>>

\* after a call has returned, build_chunks_from_segments is called
CallPack ==
    /\ pc = "done"
    /\ entry' = "build_chunks_from_segments"
    /\ segments' \in SeqSegLists
    /\ config' \in SeqConfigs
    /\ cfg' = config'
    /\ pc' = "build"
    /\ UNCHANGED <<page_text, text, lines, sg, li, pk, si, pre, result>>
    /\ UNCHANGED <<shared, frames, gen, kb, crawl>>

NextSeq ==
    \/ SplitStart
    \/ SplitLine
    \/ SplitReturn
    \/ ChunkPageEmpty
    \/ ChunkPageBuild
    \/ BuildStart
    \/ PackStep
    \/ PackFinal
    \/ MergeReturn
    \/ CallPage
    \/ CallPack

SpecSeq == InitSeq /\ [][NextSeq]_vars

\* C11: chunk_page_text is deterministic and history-independent: the chunks
\* it returns are a function of page_text and config alone, whatever calls
\* of the chunking functions were made before it.
C11_HistoryIndependent ==
    (Done /\ entry = "chunk_page_text") => result = chunk_page_text(page_text, config)

\* chunk_page_text returns no chunk while the packer state of an earlier call
\* that returned two chunks is still in the variables
C11_Witness ==
    /\ Done
    /\ entry = "chunk_page_text"
    /\ result = <<>>
    /\ Len(pre.chunks) >= 2
    /\ pk.current_segments # <<>>

----------------------------------------------------------------------------
(* Calls with unvalidated configs and with arbitrary strings as segments   *)

\* configs whose fields are any integers: nothing validates them
RawConfigs ==
    [max_chars : {-1, 0, 1, MaxRawChars}, min_chars : {-1, 0, MaxRawChars},
     overlap_segments : {-1, 0, MaxRawOverlap}]

\* strings handed as segments to build_chunks_from_segments by a caller that
\* did not trim them
RawSegPool ==
    { <<LETTER>>, <<LETTER, KEYWORD>>, <<SP, LETTER>>, <<LETTER, SP>>, <<SP>> }

\* the module is loaded and chunk_page_text has not been called yet
InitIdle ==
    /\ entry = "chunk_page_text"
    /\ page_text = <<>>
    /\ config = None
    /\ cfg = None
    /\ pc = "idle"
    /\ segments = <<>>
    /\ text = <<>>
    /\ lines = <<>>
    /\ sg = SegmentInit
    /\ li = 0
    /\ pk = PackInit
    /\ si = 0
    /\ pre = PackInit
    /\ result = <<>>
    /\ NoThreads
    /\ NoCallers

InitRaw ==
    /\ \/ /\ entry = "chunk_page_text"
          /\ page_text \in StringsUpTo(MaxRawTextLen)
          /\ config \in RawConfigs
          /\ cfg = None
          /\ pc = "split"
          /\ segments = <<>>
       \/ /\ entry = "build_chunks_from_segments"
          /\ page_text = <<>>
          /\ config \in RawConfigs
          /\ cfg = config
          /\ pc = "build"
          /\ segments \in ListsUpTo(RawSegPool, MaxRawSegs)
    /\ text = <<>>
    /\ lines = <<>>
    /\ sg = SegmentInit
    /\ li = 0
    /\ pk = PackInit
    /\ si = 0
    /\ pre = PackInit
    /\ result = <<>>
    /\ NoThreads
    /\ NoCallers

SpecRaw == InitRaw /\ [][Next]_vars

\* a call runs on: the interpreter executes the next statement
\* the one call of chunk_page_text, with any string and any config
CallRaw ==
    /\ pc = "idle"
    /\ page_text' \in StringsUpTo(MaxRawTextLen)
    /\ config' \in RawConfigs
    /\ pc' = "split"
    /\ UNCHANGED <<entry, text, lines, sg, li, segments, cfg, pk, si, pre,
                   result>>
    /\ UNCHANGED <<shared, frames, gen, kb, crawl>>

NextRaw ==
    \/ CallRaw
    \/ SplitStart
    \/ SplitLine
    \/ SplitReturn
    \/ ChunkPageEmpty
    \/ ChunkPageBuild
    \/ BuildStart
    \/ PackStep
    \/ PackFinal
    \/ MergeReturn

\* a started call is never suspended: the interpreter runs it to its return
FairSpecRaw == InitIdle /\ [][NextRaw]_vars /\ WF_vars(NextRaw)

\* a list of strings
IsListOfStrings(l) ==
    /\ DOMAIN l = 1..Len(l)
    /\ \A i \in 1..Len(l) :
          /\ DOMAIN l[i] = 1..Len(l[i])
          /\ \A j \in 1..Len(l[i]) : l[i][j] \in Chars

\* the call has returned a list of strings after reading every line once and
\* every segment once
ReturnedAfterOnePass ==
    /\ Done
    /\ IsListOfStrings(result)
    /\ li = Len(lines)
    /\ segments # <<>> => si = Len(segments)

\* C12: for every string and every config with integer fields, unvalidated
\* values included, chunk_page_text terminates after one pass over the lines
\* and one pass over the segments and returns a list of strings, no error
\* being raised.
C12_TerminatesWithoutError == <>ReturnedAfterOnePass

\* chunk_page_text has returned chunks under a config of negative fields
C12_Witness ==
    /\ Done
    /\ entry = "chunk_page_text"
    /\ config.max_chars < 0
    /\ config.min_chars < 0
    /\ config.overlap_segments < 0
    /\ Len(segments) >= 2
    /\ Len(result) = Len(segments)
    /\ ReturnedAfterOnePass

-----------------------------------------------------------------------------
(* C13  arguments of build_chunks_from_segments                            *)

\* C13: no step of build_chunks_from_segments changes the list of segments or
\* the config it was called with: after the call the caller's list has the
\* same elements in the same order and the config has the same fields
C13_ArgumentsUnchanged ==
    [][entry = "build_chunks_from_segments"
          => (segments' = segments /\ config' = config)]_vars

\* a returned call that closed a chunk, carried segments over and appended
C13_Witness ==
    /\ Done
    /\ entry = "build_chunks_from_segments"
    /\ Len(segments) >= 3
    /\ cfg.overlap_segments > 0
    /\ Len(pre.chunks) >= 2
    /\ \E c \in 1..Len(pre.chunk_src) : Len(pre.chunk_src[c]) >= 3

-----------------------------------------------------------------------------
(* C14  concurrent calls of chunk_page_text sharing one config             *)

MaxConcTextLen == 3

\* the threads that call chunk_page_text
Procs == {"t1", "t2"}

ConcTexts == UNION {[1..k -> {KEYWORD, NL}] : k \in 0..MaxConcTextLen}

\* the shared object: the default values, or values that make chunks close
ConcConfigs ==
    { DefaultConfig,
      [max_chars |-> 1, min_chars |-> 3, overlap_segments |-> 1] }

\* the locals of a call of chunk_page_text(t, config) that has just begun;
\* config refers to the shared object and is not a local copy
FrameInit(t) ==
    [page_text |-> t, pc |-> "split", text |-> <<>>, lines |-> <<>>,
     sg |-> SegmentInit, li |-> 0, segments |-> <<>>, pk |-> PackInit,
     si |-> 0, result |-> <<>>]

\* one step of a call with locals f; sh holds the fields of its config as
\* they are when the step reads them
FrameStep(f, sh) ==
    CASE f.pc = "split" ->
            LET normalized == normalize_whitespace(f.page_text)
            IN  IF normalized = <<>>
                THEN [f EXCEPT !.text = normalized, !.segments = <<>>,
                               !.pc = "split_ret"]
                ELSE [f EXCEPT !.text = normalized,
                               !.lines = splitlines(normalized),
                               !.pc = "lines"]
      [] f.pc = "lines" /\ f.li < Len(f.lines) ->
            [f EXCEPT !.sg = SegmentLine(f.sg, f.lines[f.li + 1]),
                      !.li = f.li + 1]
      [] f.pc = "lines" /\ f.li = Len(f.lines) ->
            [f EXCEPT !.segments =
                          flush_segment(f.sg.segments, f.sg.current_lines),
                      !.pc = "split_ret"]
      [] f.pc = "split_ret" ->
            IF f.segments = <<>>
            THEN [f EXCEPT !.result = <<>>, !.pc = "done"]
            ELSE [f EXCEPT !.pc = "build"]
      [] f.pc = "build" ->
            [f EXCEPT !.pk = PackInit, !.si = 0, !.pc = "pack"]
      [] f.pc = "pack" /\ f.si < Len(f.segments) ->
            [f EXCEPT !.pk = PackSegment(f.pk, f.segments[f.si + 1],
                                         f.si + 1, sh),
                      !.si = f.si + 1]
      [] f.pc = "pack" /\ f.si = Len(f.segments) ->
            [f EXCEPT !.pk = PackFinalChunk(f.pk), !.pc = "merge"]
      [] f.pc = "merge" ->
            LET merged == MergeLast(f.pk, sh)
            IN  [f EXCEPT !.pk = merged, !.result = merged.chunks,
                          !.pc = "done"]

\* chunks and current_segments are module-level lists: one object for all
\* the calls
ThreadStep_module_buffer(p) ==
    /\ frames[p].pc # "done"
    /\ LET new == FrameStep(frames[p], shared)
       IN  frames' = [q \in Procs |->
                        [(IF q = p THEN new ELSE frames[q])
                            EXCEPT !.pk = new.pk]]
    /\ UNCHANGED <<entry, page_text, config, pc, text, lines, sg, li, segments,
                   cfg, pk, si, pre, result, shared, gen, kb,
                   crawl>>

\* thread p runs the next step of its call
ThreadStep(p) ==
    /\ frames[p].pc # "done"
    /\ frames' = [frames EXCEPT ![p] = FrameStep(frames[p], shared)]
    /\ UNCHANGED <<entry, page_text, config, pc, text, lines, sg, li, segments,
                   cfg, pk, si, pre, result, shared, gen, kb,
                   crawl>>

\* every thread has called chunk_page_text with its own text and the one
\* shared config
InitConc ==
    /\ shared \in ConcConfigs
    /\ frames \in [Procs -> {FrameInit(t) : t \in ConcTexts}]
    /\ entry = "chunk_page_text"
    /\ page_text = <<>>
    /\ config = None
    /\ cfg = None
    /\ pc = "idle"
    /\ segments = <<>>
    /\ text = <<>>
    /\ lines = <<>>
    /\ sg = SegmentInit
    /\ li = 0
    /\ pk = PackInit
    /\ si = 0
    /\ pre = PackInit
    /\ result = <<>>
    /\ NoCallers

NextConc == \E p \in Procs : ThreadStep(p)

SpecConc == InitConc /\ [][NextConc]_vars

\* C14: under every interleaving each concurrent call returns what a call
\* running alone returns for its text and the shared config, no step changes
\* the shared config, and no step changes the locals of another call
C14_InterleavingIndependent ==
    /\ [](\A p \in DOMAIN frames :
            frames[p].pc = "done"
                => frames[p].result
                       = chunk_page_text(frames[p].page_text, shared))
    /\ [][/\ shared' = shared
          /\ \E p \in DOMAIN frames :
                \A q \in DOMAIN frames \ {p} : frames'[q] = frames[q]]_vars

\* both calls are in the middle of their packing loops at the same time
C14_Witness ==
    /\ DOMAIN frames = Procs
    /\ \A p \in Procs :
          /\ frames[p].pc = "pack"
          /\ frames[p].si = 1
          /\ Len(frames[p].segments) = 2
          /\ frames[p].pk.current_segments # <<>>

-----------------------------------------------------------------------------
(* C15  overlap of one segment when no two segments fit together           *)

\* overlap_segments = 1, at least two segments, no two consecutive segments
\* fit into max_chars together, and the last chunk of the greedy pass is not
\* shorter than min_chars
PairwiseTooLong ==
    /\ Packed
    /\ cfg.overlap_segments = 1
    /\ Len(segments) >= 2
    /\ \A i \in 1..(Len(segments) - 1) :
          Len(Join(SEP, <<segments[i], segments[i + 1]>>)) > cfg.max_chars
    /\ pre.chunks # <<>>
    /\ Len(pre.chunks[Len(pre.chunks)]) >= cfg.min_chars

\* C15: in that case there are as many chunks as segments, chunk 1 is
\* segment 1 and chunk i, i >= 2, is segment i-1, the separator, segment i
C15_OverlapOneChain ==
    PairwiseTooLong =>
        /\ Len(result) = Len(segments)
        /\ result[1] = segments[1]
        /\ \A i \in 2..Len(segments) :
              result[i] = segments[i - 1] \o SEP \o segments[i]

\* three or more segments, not all the same, chunked that way
C15_Witness ==
    /\ PairwiseTooLong
    /\ Len(segments) >= 3
    /\ segments[1] # segments[2]
    /\ segments[2] # segments[3]
    /\ Len(result) = Len(segments)
    /\ result[3] = segments[2] \o SEP \o segments[3]

-----------------------------------------------------------------------------
(* C16  where split_into_segments places the segment boundaries            *)

\* line i begins a segment: it is not blank and it is the first line, or
\* follows a blank line, or is a heading
BoundaryAt(i) ==
    /\ NonBlankLine(lines[i])
    /\ \/ i = 1
       \/ ~NonBlankLine(lines[i - 1])
       \/ HeadingMatch(lines[i])

SegmentStarts == {i \in 1..Len(lines) : BoundaryAt(i)}

\* the last line of the segment that begins at line s
SegmentEnd(s) ==
    CHOOSE e \in s..Len(lines) :
        /\ \A j \in (s + 1)..e : NonBlankLine(lines[j]) /\ ~BoundaryAt(j)
        /\ \/ e = Len(lines)
           \/ ~NonBlankLine(lines[e + 1])
           \/ BoundaryAt(e + 1)

\* the position among the segments of the one that begins at line s
SegmentRank(s) == Cardinality({t \in SegmentStarts : t <= s})

\* the lines s..e, each without its trailing whitespace, as one segment
SegmentOfLines(s, e) ==
    Strip(Join(<<NL>>, [j \in 1..(e - s + 1) |-> RStrip(lines[s + j - 1])]))

\* line i is a heading that follows a non-blank line
HeadingAfterText(i) ==
    /\ i >= 2
    /\ HeadingMatch(lines[i])
    /\ NonBlankLine(lines[i - 1])

\* C16: the segments are cut exactly after each run of blank lines and
\* before each heading that follows a non-blank line; such a heading is the
\* first line of its segment, no line of a segment other than its first
\* matches the heading pattern, and a heading met with an empty buffer adds
\* no segment
C16_SegmentBoundaries ==
    SplitReturned =>
        /\ Len(segments) = Cardinality(SegmentStarts)
        /\ \A s \in SegmentStarts :
              segments[SegmentRank(s)] = SegmentOfLines(s, SegmentEnd(s))
        /\ \A i \in 1..Len(lines) :
              HeadingAfterText(i) =>
                  HeadingMatch(splitlines(segments[SegmentRank(i)])[1])
        /\ \A k \in 1..Len(segments) :
              \A m \in 2..Len(splitlines(segments[k])) :
                  ~HeadingMatch(splitlines(segments[k])[m])

\* a heading at the start of the text, a heading after a non-blank line and
\* a segment after a blank line
C16_Witness ==
    /\ SplitReturned
    /\ Len(lines) >= 4
    /\ HeadingMatch(lines[1])
    /\ HeadingAfterText(2)
    /\ \E i \in 3..(Len(lines) - 1) :
          ~NonBlankLine(lines[i]) /\ NonBlankLine(lines[i + 1])
    /\ Len(segments) = 3

-----------------------------------------------------------------------------
(* C17  the packer is greedy                                                *)

\* the loop takes a segment after the first
TakesLaterSegment == pc = "pack" /\ si >= 1 /\ si' = si + 1

\* the buffer with the segment the loop is about to take does not fit
BufferWithNextTooLong ==
    Len(Join(SEP, Append(pk.current_segments, segments[si + 1])))
        > cfg.max_chars

\* the step closed the buffer as a chunk and began a buffer that ends with
\* the segment
ClosedBefore ==
    /\ pk'.chunks = Append(pk.chunks, Join(SEP, pk.current_segments))
    /\ pk'.current_segments # <<>>
    /\ pk'.current_segments[Len(pk'.current_segments)] = segments[si + 1]

\* the step appended the segment to the buffer and closed nothing
AppendedTo ==
    /\ pk'.chunks = pk.chunks
    /\ pk'.current_segments = Append(pk.current_segments, segments[si + 1])

\* a chunk closed by the loop does not fit together with the first segment
\* the next chunk has beyond the overlap
ClosedChunksWereFull ==
    \A c \in 1..(Len(pre.chunk_src) - 1) :
        LET a == pre.chunk_src[c]
            b == pre.chunk_src[c + 1]
            next == a[Len(a)] + 1
        IN /\ \E j \in 1..Len(b) :
                 /\ b[j] = next
                 /\ \A h \in 1..(j - 1) : b[h] <= a[Len(a)]
           /\ Len(Join(SEP, Append(SegsAt(a), segments[next])))
                  > cfg.max_chars

\* C17: for every segment after the first the buffer is closed as a chunk
\* before it if and only if the two-newline join of the buffer and the
\* segment has more than max_chars characters, and otherwise the segment is
\* appended; hence each chunk of the greedy pass but the last, joined with
\* the first segment the next chunk has beyond the overlap, exceeds max_chars
C17_Greedy ==
    /\ [][TakesLaterSegment =>
              IF BufferWithNextTooLong THEN ClosedBefore
                                       ELSE AppendedTo]_vars
    /\ [](Packed => ClosedChunksWereFull)

\* chunks were closed, and a buffer that reached max_chars exactly was kept
\* open and closed only later
C17_Witness ==
    /\ Packed
    /\ entry = "build_chunks_from_segments"
    /\ Len(pre.chunks) >= 2
    /\ cfg.overlap_segments = 0
    /\ \E c \in 1..(Len(pre.chunk_src) - 1) :
          /\ Len(pre.chunk_src[c]) >= 2
          /\ Len(pre.chunks[c]) = cfg.max_chars

-----------------------------------------------------------------------------
(* C18  the trailing merge is made once                                     *)

\* the last chunk of the greedy pass is shorter than min_chars and has a
\* chunk before it
LastChunkTooShort ==
    /\ Len(pre.chunks) >= 2
    /\ Len(pre.chunks[Len(pre.chunks)]) < cfg.min_chars

\* C18: the merge removes at most one chunk; when the last chunk of the
\* greedy pass is too short it is joined to the chunk before it and the
\* result is returned whatever its length; with fewer than two chunks or a
\* last chunk of at least min_chars characters the list is returned as the
\* greedy pass left it
C18_MergeOnce ==
    Packed =>
        LET n == Len(pre.chunks)
        IN /\ Len(result) >= n - 1
           /\ LastChunkTooShort =>
                  result = Append(SubSeq(pre.chunks, 1, n - 2),
                                  pre.chunks[n - 1] \o SEP \o pre.chunks[n])
           /\ ~LastChunkTooShort => result = pre.chunks

\* three or more chunks, the last one merged, and the merged chunk is still
\* shorter than min_chars and longer than max_chars
C18_Witness ==
    /\ Packed
    /\ Len(pre.chunks) >= 3
    /\ LastChunkTooShort
    /\ Len(result) = Len(pre.chunks) - 1
    /\ Len(result[Len(result)]) < cfg.min_chars
    /\ Len(result[Len(result)]) > cfg.max_chars

-----------------------------------------------------------------------------
(* C19  the lengths compared with max_chars and min_chars                   *)

\* the loop is about to test a segment against a buffer that is not empty
AboutToCompare ==
    /\ pc = "pack"
    /\ si < Len(segments)
    /\ pk.current_segments # <<>>

\* the merge step is about to test the last of two or more chunks
AboutToMerge == pc = "merge" /\ Len(pk.chunks) >= 2

\* the buffer with the segment the loop is about to take
BufferWithNext == Append(pk.current_segments, segments[si + 1])

\* the value line 165 compares with max_chars
ComparedWithMaxChars ==
    current_length_with(pk.current_segments, segments[si + 1])

\* the value line 187 compares with min_chars
ComparedWithMinChars == Len(pk.chunks[Len(pk.chunks)])

\* the two-newline join of the segments the last chunk was made of, trimmed
LastChunkJoinTrimmed ==
    Strip(Join(SEP, SegsAt(pk.chunk_src[Len(pk.chunk_src)])))

RECURSIVE TotalLen(_)
TotalLen(strs) ==
    IF strs = <<>> THEN 0 ELSE Len(Head(strs)) + TotalLen(Tail(strs))

Trimmed(s) == s # <<>> /\ Strip(s) = s

\* C19 as stated: both values are lengths of the two-newline join after
\* trimming, whatever whitespace the segments carry
C19_TrimmedLengths ==
    /\ AboutToCompare =>
          ComparedWithMaxChars = Len(Strip(Join(SEP, BufferWithNext)))
    /\ AboutToMerge => ComparedWithMinChars = Len(LastChunkJoinTrimmed)

\* C19: the value compared with max_chars counts every character of the
\* two-newline join of the buffer and the segment, surrounding whitespace
\* included, and is the length of the trimmed join when the first segment
\* of the buffer and the new segment are trimmed and not empty; the value
\* compared with min_chars is the length of the trimmed join
C19_JoinLengths ==
    /\ AboutToCompare =>
          /\ ComparedWithMaxChars
                 = TotalLen(BufferWithNext) + 2 * (Len(BufferWithNext) - 1)
          /\ (Trimmed(BufferWithNext[1]) /\ Trimmed(segments[si + 1]))
                 => ComparedWithMaxChars
                        = Len(Strip(Join(SEP, BufferWithNext)))
    /\ AboutToMerge => ComparedWithMinChars = Len(LastChunkJoinTrimmed)

\* a segment with whitespace around it is measured: the value compared is
\* greater than the length of the trimmed join
C19_Witness ==
    /\ AboutToCompare
    /\ entry = "build_chunks_from_segments"
    /\ ~Trimmed(segments[si + 1])
    /\ ComparedWithMaxChars > Len(Strip(Join(SEP, BufferWithNext)))
    /\ Len(pk.chunks) >= 1

-----------------------------------------------------------------------------
(* C20  max_chars smaller than every segment                                *)

\* build_chunks_from_segments has returned; max_chars is smaller than the
\* length of every segment, min_chars is 0 and overlap_segments is not
\* negative
EverySegmentTooLong ==
    /\ Packed
    /\ entry = "build_chunks_from_segments"
    /\ cfg.min_chars = 0
    /\ cfg.overlap_segments >= 0
    /\ \A i \in 1..Len(segments) :
          IsSegment(segments[i]) /\ cfg.max_chars < Len(segments[i])

\* C20 as stated: the chunks are the segments, for every overlap_segments
C20_ChunksAreSegments == EverySegmentTooLong => result = segments

\* C20: there is one chunk per segment; chunk i is segment i preceded by the
\* segments carried over, that is the two-newline join of the segments
\* max(1, i - overlap_segments) .. i, and is segment i itself when
\* overlap_segments = 0
C20_ChunkPerSegmentWithOverlap ==
    EverySegmentTooLong =>
        /\ Len(result) = Len(segments)
        /\ \A i \in 1..Len(segments) :
              result[i] =
                  Join(SEP, SubSeq(segments,
                                   IF i > cfg.overlap_segments
                                   THEN i - cfg.overlap_segments ELSE 1,
                                   i))
        /\ cfg.overlap_segments = 0 => result = segments

\* three segments, max_chars not positive, one segment carried over
C20_Witness ==
    /\ EverySegmentTooLong
    /\ cfg.max_chars <= 0
    /\ cfg.overlap_segments >= 1
    /\ Len(segments) >= 3
    /\ Len(result) = 3
    /\ result[3] = segments[2] \o SEP \o segments[3]

-----------------------------------------------------------------------------
(* C21  all the segments fit into one chunk                                 *)

\* the two-newline join of all the segments has at most max_chars characters
AllSegmentsFit == Packed /\ Len(Join(SEP, segments)) <= cfg.max_chars

\* C21: when the two-newline join of all the segments has at most max_chars
\* characters, the result is one chunk, that join, whatever min_chars and
\* overlap_segments are
C21_OneChunkWhenAllFit == AllSegmentsFit => result = <<Join(SEP, segments)>>

\* three segments fit, with an overlap configured and a min_chars the chunk
\* does not reach
C21_Witness ==
    /\ AllSegmentsFit
    /\ entry = "build_chunks_from_segments"
    /\ Len(segments) >= 3
    /\ cfg.overlap_segments >= 1
    /\ cfg.min_chars > Len(Join(SEP, segments))
    /\ Len(result) = 1

-----------------------------------------------------------------------------
(* C22  without overlap the chunks partition the segments                   *)

RECURSIVE Flatten(_)
Flatten(seqs) == IF seqs = <<>> THEN <<>> ELSE Head(seqs) \o Flatten(Tail(seqs))

\* build_chunks_from_segments has returned; overlap_segments is 0 or
\* negative and no segment is empty or all whitespace
PackedWithoutOverlap ==
    /\ Packed
    /\ cfg.overlap_segments <= 0
    /\ \A i \in 1..Len(segments) : Strip(segments[i]) # <<>>

\* C22: with overlap_segments = 0 or negative the chunks partition the
\* input: every chunk is made of a run of segments, and the runs of the
\* chunks, one after the other, are the list of segments, each segment in
\* exactly one chunk, whether or not the trailing merge fired; for trimmed
\* segments each chunk is the two-newline join of its run
C22_Partition ==
    PackedWithoutOverlap =>
        /\ Len(pk.chunk_src) = Len(result)
        /\ Flatten(pk.chunk_src) = [i \in 1..Len(segments) |-> i]
        /\ (\A i \in 1..Len(segments) : Trimmed(segments[i])) =>
              /\ \A c \in 1..Len(result) :
                    result[c] = Join(SEP, SegsAt(pk.chunk_src[c]))
              /\ Join(SEP, result) = Join(SEP, segments)

\* a negative overlap_segments, a chunk of two segments closed by the loop
\* and a last chunk merged into it
C22_Witness ==
    /\ PackedWithoutOverlap
    /\ entry = "build_chunks_from_segments"
    /\ \A i \in 1..Len(segments) : Trimmed(segments[i])
    /\ cfg.overlap_segments < 0
    /\ Len(segments) = 3
    /\ Len(pre.chunks) = 2
    /\ Len(pre.chunk_src[1]) = 2
    /\ Len(result) = 1

-----------------------------------------------------------------------------
(* C23  no segment is lost                                                  *)

\* sub occurs in s as a run of consecutive characters
IsSubstring(sub, s) ==
    \E i \in 0..(Len(s) - Len(sub)) : SubSeq(s, i + 1, i + Len(sub)) = sub

StartsWith(s, prefix) ==
    Len(prefix) <= Len(s) /\ SubSeq(s, 1, Len(prefix)) = prefix

EndsWith(s, suffix) ==
    /\ Len(suffix) <= Len(s)
    /\ SubSeq(s, Len(s) - Len(suffix) + 1, Len(s)) = suffix

\* build_chunks_from_segments has returned and no segment is empty or all
\* whitespace
PackedNonBlank ==
    /\ Packed
    /\ \A i \in 1..Len(segments) : Strip(segments[i]) # <<>>

\* C23: for every overlap_segments, when no segment is empty after trimming
\* every segment is part of at least one returned chunk and its trimmed text
\* occurs in that chunk; the first chunk starts with the first segment and
\* the last chunk ends with the last segment
C23_NoSegmentLost ==
    PackedNonBlank =>
        /\ result # <<>>
        /\ Len(pk.chunk_src) = Len(result)
        /\ \A i \in 1..Len(segments) :
              \E c \in 1..Len(result) :
                  /\ \E j \in 1..Len(pk.chunk_src[c]) : pk.chunk_src[c][j] = i
                  /\ IsSubstring(Strip(segments[i]), result[c])
        /\ pk.chunk_src[1][1] = 1
        /\ StartsWith(result[1], Strip(segments[1]))
        /\ LET last == pk.chunk_src[Len(result)]
           IN last[Len(last)] = Len(segments)
        /\ EndsWith(result[Len(result)], Strip(segments[Len(segments)]))

\* segments with whitespace around them, an overlap, and several chunks
C23_Witness ==
    /\ PackedNonBlank
    /\ entry = "build_chunks_from_segments"
    /\ Len(segments) = 3
    /\ ~Trimmed(segments[1])
    /\ ~Trimmed(segments[3])
    /\ cfg.overlap_segments >= 1
    /\ Len(result) >= 2

-----------------------------------------------------------------------------
(* C24  which chunks can exceed max_chars                                   *)

\* returned chunk c is the product of the trailing merge
IsMergedChunk(c) == MergeFired /\ c = Len(result)

\* returned chunk c begins with a segment carried over from the chunk before
StartsWithOverlap(c) ==
    /\ c >= 2
    /\ LET before == pk.chunk_src[c - 1]
       IN pk.chunk_src[c][1] <= before[Len(before)]

\* C24: with overlap_segments = 0 a returned chunk of two or more segments
\* that is not the product of the trailing merge has at most max_chars
\* characters; with any overlap_segments a chunk longer than max_chars is a
\* single segment, or the merged trailing chunk, or, when overlap_segments
\* > 0, a chunk that starts with carried-over segments
C24_SoftLimit ==
    Packed =>
        /\ Len(pk.chunk_src) = Len(result)
        /\ \A c \in 1..Len(result) :
              /\ (/\ cfg.overlap_segments = 0
                  /\ Len(pk.chunk_src[c]) >= 2
                  /\ ~IsMergedChunk(c))
                    => Len(result[c]) <= cfg.max_chars
              /\ Len(result[c]) > cfg.max_chars =>
                    \/ Len(pk.chunk_src[c]) = 1
                    \/ IsMergedChunk(c)
                    \/ cfg.overlap_segments > 0 /\ StartsWithOverlap(c)

\* without overlap and without merge: several chunks, one of them made of
\* two or more segments and filled to max_chars exactly
C24_Witness ==
    /\ Packed
    /\ entry = "build_chunks_from_segments"
    /\ cfg.overlap_segments = 0
    /\ ~MergeFired
    /\ Len(result) >= 2
    /\ \E c \in 1..Len(result) :
          Len(pk.chunk_src[c]) >= 2 /\ Len(result[c]) = cfg.max_chars

-----------------------------------------------------------------------------
(* C25  the merged chunk repeats the overlap                                *)

\* the trailing merge fired with overlap_segments >= 1
MergedWithOverlap == Packed /\ MergeFired /\ cfg.overlap_segments >= 1

\* C25: when the trailing merge fires with overlap_segments = k >= 1 the
\* merged chunk is the former second-to-last chunk, the separator and the
\* former last chunk, and the segments carried over, the last min(k, number
\* of segments) of the former second-to-last chunk, stand in it twice in
\* succession: as the tail of the one and as the head of the other
C25_OverlapRepeatedInMerge ==
    MergedWithOverlap =>
        LET n == Len(pre.chunks)
            a == pre.chunk_src[n - 1]
            b == pre.chunk_src[n]
            m == Min(cfg.overlap_segments, Len(a))
            carried == SegsAt(LastN(a, m))
        IN /\ m >= 1
           /\ Len(b) > m
           /\ SubSeq(b, 1, m) = LastN(a, m)
           /\ pk.chunk_src[n - 1] = a \o b
           /\ result[n - 1]
                 = Join(SEP, SegsAt(a)) \o SEP \o Join(SEP, SegsAt(b))
           /\ IsSubstring(Join(SEP, carried \o carried), result[n - 1])

\* two segments were carried over and stand twice in the merged chunk
C25_Witness ==
    /\ MergedWithOverlap
    /\ entry = "build_chunks_from_segments"
    /\ cfg.overlap_segments = 2
    /\ Len(pre.chunk_src[Len(pre.chunks) - 1]) >= 2
    /\ Len(result) >= 2
    /\ SubSeq(pre.chunk_src[Len(pre.chunks)], 1, 2)
           = LastN(pre.chunk_src[Len(pre.chunks) - 1], 2)

\* ------------------------------------------------------------------------
\* The callers of chunk_page_text that build one record per chunk:
\* iter_embedding_records (embeddings/corpus_builder.py) and
\* iter_page_chunks_for_kb (knowledge_base/chunking_adapter.py)
\* ------------------------------------------------------------------------

MaxGenPages == 2

DigitChars == <<"0", "1", "2", "3", "4", "5", "6", "7", "8", "9">>

RECURSIVE Digits(_)
\* the decimal digits of a natural number
Digits(n) ==
    IF n < 10 THEN <<DigitChars[n + 1]>>
    ELSE Digits(n \div 10) \o <<DigitChars[(n % 10) + 1]>>

RECURSIVE ZeroPad(_, _)
ZeroPad(digits, width) ==
    IF Len(digits) >= width THEN digits ELSE ZeroPad(<<"0">> \o digits, width)

\* format(n, "03d"): the sign, then the digits padded with zeros so that
\* the whole is at least three characters wide
Format03d(n) ==
    IF n < 0 THEN <<"-">> \o ZeroPad(Digits(-n), 2) ELSE ZeroPad(Digits(n), 3)

IdSep == <<":", ":">>

\* the "page" of a page object: <<>> is None, <<n>> is the number n
NoPage == <<>>

\* corpus_builder.py: the config every document is chunked with
BuilderChunkConfig ==
    [max_chars |-> 1500, min_chars |-> 400, overlap_segments |-> 1]

\* chunking_adapter.py: DEFAULT_CHUNK_CONFIG
DEFAULT_CHUNK_CONFIG ==
    [max_chars |-> 1500, min_chars |-> 400, overlap_segments |-> 1]

\* corpus_builder.py, lines 121-127: the page part is left out when the
\* document has no pages
record_id(contract_id, document_type, page, chunk_idx) ==
    Join(IdSep,
         <<contract_id, document_type>>
         \o (IF page # NoPage THEN << <<"p">> \o Format03d(page[1]) >>
             ELSE <<>>)
         \o << <<"c">> \o Format03d(chunk_idx) >>)

\* corpus_loader.py, PageChunk.id
PageChunk_id(c) ==
    c.contract_id \o IdSep \o c.doc_type \o IdSep
    \o <<"p">> \o Format03d(c.page_number[1]) \o IdSep
    \o <<"c">> \o Format03d(c.chunk_index)

\* the record iter_embedding_records yields for chunk chunk_idx of a page
EmbeddingRecord(contract_id, document_type, page, chunk_idx, chunk_text) ==
    [id |-> record_id(contract_id, document_type, page, chunk_idx),
     text |-> chunk_text,
     page |-> page,
     chunk_index |-> chunk_idx]

\* the PageChunk iter_page_chunks_for_kb yields, with its id property
KbRecord(contract_id, doc_type, page_number, idx, chunk_text) ==
    LET c == [contract_id |-> contract_id, doc_type |-> doc_type,
              page_number |-> page_number, chunk_index |-> idx]
    IN  [id |-> PageChunk_id(c),
         text |-> chunk_text,
         page |-> page_number,
         chunk_index |-> idx]

GenFunctions == {"iter_embedding_records", "iter_page_chunks_for_kb"}

\* page texts that give no, one, two and three chunks
GenTexts ==
    { <<>>, <<NL>>, <<LETTER>>, <<LETTER, NL, KEYWORD>>,
      <<KEYWORD, NL, KEYWORD, NL, KEYWORD>> }

GenPageNumbers == {NoPage, <<3>>, <<1000>>}

GenPages == [page : GenPageNumbers, text : GenTexts]

GenConfigs ==
    { [max_chars |-> 1, min_chars |-> 0, overlap_segments |-> 0],
      [max_chars |-> 3, min_chars |-> 2, overlap_segments |-> 1],
      DEFAULT_CHUNK_CONFIG }

GenContractId == <<"A">>
GenDocType == <<"d">>

\* the generator is called on a document of pages
GenInit(fn, chunk_config, pages) ==
    [fn |-> fn, chunk_config |-> chunk_config, pages |-> pages,
     pi |-> 0,              \* number of pages taken from pages
     chunks |-> <<>>,       \* what chunk_page_text returned for the page
     chunk_idx |-> 0,       \* enumerate(chunks): the next index
     returned |-> <<>>,     \* per page taken: was it skipped, its chunks
     yielded |-> <<>>,      \* the records yielded so far, each with its pi
     pc |-> "pages"]

\* corpus_builder.py line 111 / corpus_loader.py line 103: the page is
\* not chunked
GenSkips(fn, page_obj) ==
    IF fn = "iter_embedding_records"
    THEN Strip(page_obj.text) = <<>>
    ELSE page_obj.page = NoPage \/ Strip(page_obj.text) = <<>>

\* the next page is skipped
GenSkipPage ==
    /\ gen # None
    /\ gen.pc = "pages"
    /\ gen.pi < Len(gen.pages)
    /\ GenSkips(gen.fn, gen.pages[gen.pi + 1])
    /\ gen' = [gen EXCEPT !.pi = gen.pi + 1,
                          !.returned = Append(gen.returned,
                                    [skipped |-> TRUE, chunks |-> <<>>])]
    /\ UNCHANGED <<entry, page_text, config, pc, text, lines, sg, li, segments,
                   cfg, pk, si, pre, result, shared, frames, kb, crawl>>

\* corpus_builder.py line 115 / chunking_adapter.py lines 43-46: the next
\* page is chunked
GenChunkPage ==
    /\ gen # None
    /\ gen.pc = "pages"
    /\ gen.pi < Len(gen.pages)
    /\ ~GenSkips(gen.fn, gen.pages[gen.pi + 1])
    /\ LET chunks == chunk_page_text(gen.pages[gen.pi + 1].text,
                                     gen.chunk_config)
       IN  gen' = [gen EXCEPT !.pi = gen.pi + 1,
                              !.chunks = chunks,
                              !.chunk_idx = 0,
                              !.returned = Append(gen.returned,
                                    [skipped |-> FALSE, chunks |-> chunks]),
                              !.pc = "chunks"]
    /\ UNCHANGED <<entry, page_text, config, pc, text, lines, sg, li, segments,
                   cfg, pk, si, pre, result, shared, frames, kb, crawl>>

\* the index is the number of records yielded so far, over all the pages
GenRecord_running_index(g) ==
    LET page_obj == g.pages[g.pi]
        chunk_idx == Len(g.yielded)
        chunk_text == g.chunks[g.chunk_idx + 1]
    IN  IF g.fn = "iter_embedding_records"
        THEN EmbeddingRecord(GenContractId, GenDocType, page_obj.page,
                             chunk_idx, chunk_text)
        ELSE KbRecord(GenContractId, GenDocType, page_obj.page, chunk_idx,
                      chunk_text)

\* the record of the loop body for enumerate's current (index, chunk)
GenRecord(g) ==
    LET page_obj == g.pages[g.pi]
        chunk_idx == g.chunk_idx
        chunk_text == g.chunks[g.chunk_idx + 1]
    IN  IF g.fn = "iter_embedding_records"
        THEN EmbeddingRecord(GenContractId, GenDocType, page_obj.page,
                             chunk_idx, chunk_text)
        ELSE KbRecord(GenContractId, GenDocType, page_obj.page, chunk_idx,
                      chunk_text)

\* corpus_builder.py lines 120-144 / chunking_adapter.py lines 48-69: one
\* iteration of "for idx, chunk_text in enumerate(chunks)"
GenYield ==
    /\ gen # None
    /\ gen.pc = "chunks"
    /\ gen.chunk_idx < Len(gen.chunks)
    /\ gen' = [gen EXCEPT
                 !.yielded = Append(gen.yielded,
                                    [pi |-> gen.pi, record |-> GenRecord(gen)]),
                 !.chunk_idx = gen.chunk_idx + 1]
    /\ UNCHANGED <<entry, page_text, config, pc, text, lines, sg, li, segments,
                   cfg, pk, si, pre, result, shared, frames, kb, crawl>>

\* enumerate(chunks) is exhausted: back to the loop over the pages
GenPageDone ==
    /\ gen # None
    /\ gen.pc = "chunks"
    /\ gen.chunk_idx = Len(gen.chunks)
    /\ gen' = [gen EXCEPT !.pc = "pages"]
    /\ UNCHANGED <<entry, page_text, config, pc, text, lines, sg, li, segments,
                   cfg, pk, si, pre, result, shared, frames, kb, crawl>>

\* the pages are exhausted: the generator ends
GenReturn ==
    /\ gen # None
    /\ gen.pc = "pages"
    /\ gen.pi = Len(gen.pages)
    /\ gen' = [gen EXCEPT !.pc = "done"]
    /\ UNCHANGED <<entry, page_text, config, pc, text, lines, sg, li, segments,
                   cfg, pk, si, pre, result, shared, frames, kb, crawl>>

\* the chunker's own variables while only one of its callers is modelled
ChunkerIdle ==
    /\ entry = "none"
    /\ page_text = <<>>
    /\ config = None
    /\ cfg = None
    /\ pc = "idle"
    /\ segments = <<>>
    /\ text = <<>>
    /\ lines = <<>>
    /\ sg = SegmentInit
    /\ li = 0
    /\ pk = PackInit
    /\ si = 0
    /\ pre = PackInit
    /\ result = <<>>
    /\ NoThreads

InitGen ==
    /\ ChunkerIdle
    /\ \E fn \in GenFunctions, pages \in ListsUpTo(GenPages, MaxGenPages) :
         \E chunk_config \in (IF fn = "iter_embedding_records"
                              THEN {BuilderChunkConfig} ELSE GenConfigs) :
            gen = GenInit(fn, chunk_config, pages)
    /\ kb = None
    /\ crawl = None

NextGen ==
    \/ GenSkipPage
    \/ GenChunkPage
    \/ GenYield
    \/ GenPageDone
    \/ GenReturn

SpecGen == InitGen /\ [][NextGen]_vars

\* the records yielded for the page taken as number p
RecordsOfPage(p) ==
    LET recs == SelectSeq(gen.yielded, LAMBDA y : y.pi = p)
    IN  [j \in 1..Len(recs) |-> recs[j].record]

\* every record of page p has been yielded
PageFinished(p) ==
    \/ p < gen.pi
    \/ gen.pc \in {"pages", "done"}

MaxKbLines == 34
MaxKbOther == 2

\* main.py line 123
batch_size == 32

KbContractIds == {"A", "B"}

\* the lines of the file are read one by one; a line is the record
\* [line, contract_id], line being its number in the file
KbInit(selected_ids) ==
    [selected_ids |-> selected_ids,
     file |-> <<>>,           \* the lines read so far
     points_batch |-> <<>>,
     total_points |-> 0,
     upserts |-> <<>>,        \* the batches client.upsert was called with
     pc |-> "loop"]

\* the upsert does not rebind points_batch to a new list
vectorize_line_batch_kept(k, rec) ==
    IF rec.contract_id \notin k.selected_ids
    THEN [k EXCEPT !.file = Append(k.file, rec)]
    ELSE LET batch == Append(k.points_batch, rec)
             total == k.total_points + 1
         IN  IF Len(batch) >= batch_size
             THEN [k EXCEPT !.file = Append(k.file, rec),
                            !.total_points = total,
                            !.upserts = Append(k.upserts, batch),
                            !.points_batch = batch]
             ELSE [k EXCEPT !.file = Append(k.file, rec),
                            !.total_points = total,
                            !.points_batch = batch]

\* main.py lines 127-157: one iteration of "for line in f" whose
\* embed_text call returns
vectorize_line(k, rec) ==
    IF rec.contract_id \notin k.selected_ids
    THEN [k EXCEPT !.file = Append(k.file, rec)]
    ELSE LET batch == Append(k.points_batch, rec)
             total == k.total_points + 1
         IN  IF Len(batch) >= batch_size
             THEN [k EXCEPT !.file = Append(k.file, rec),
                            !.total_points = total,
                            !.upserts = Append(k.upserts, batch),
                            !.points_batch = <<>>]
             ELSE [k EXCEPT !.file = Append(k.file, rec),
                            !.total_points = total,
                            !.points_batch = batch]

\* main.py lines 159-169: "if points_batch: client.upsert(...)"; the list
\* is not rebound afterwards
vectorize_flush(k) ==
    IF k.points_batch # <<>>
    THEN [k EXCEPT !.upserts = Append(k.upserts, k.points_batch),
                   !.pc = "done"]
    ELSE [k EXCEPT !.pc = "done"]

\* the number of lines read so far that are of contract cid
KbCount(file, cid) ==
    Cardinality({i \in 1..Len(file) : file[i].contract_id = cid})

\* the file has one more line, of contract cid
KbMoreLines(cid) ==
    /\ Len(kb.file) < MaxKbLines
    /\ cid = "B" => KbCount(kb.file, "B") < MaxKbOther

\* the next line is read and handled
KbReadLine ==
    /\ kb # None
    /\ kb.pc = "loop"
    /\ \E cid \in KbContractIds :
         /\ KbMoreLines(cid)
         /\ kb' = vectorize_line(kb, [line |-> Len(kb.file) + 1,
                                      contract_id |-> cid])
    /\ UNCHANGED <<entry, page_text, config, pc, text, lines, sg, li, segments,
                   cfg, pk, si, pre, result, shared, frames, gen, crawl>>

\* main.py lines 136 and 87-91: the next line is of a selected contract
\* and embed_text raises; the function is left with the exception
KbEmbedRaises ==
    /\ kb # None
    /\ kb.pc = "loop"
    /\ \E cid \in KbContractIds \cap kb.selected_ids :
         /\ KbMoreLines(cid)
         /\ kb' = [kb EXCEPT !.file = Append(kb.file,
                                 [line |-> Len(kb.file) + 1,
                                  contract_id |-> cid]),
                             !.pc = "raised"]
    /\ UNCHANGED <<entry, page_text, config, pc, text, lines, sg, li, segments,
                   cfg, pk, si, pre, result, shared, frames, gen, crawl>>

\* the file has no more lines: the remaining points are flushed
KbEndOfFile ==
    /\ kb # None
    /\ kb.pc = "loop"
    /\ kb' = vectorize_flush(kb)
    /\ UNCHANGED <<entry, page_text, config, pc, text, lines, sg, li, segments,
                   cfg, pk, si, pre, result, shared, frames, gen, crawl>>

InitKb ==
    /\ ChunkerIdle
    /\ gen = None
    /\ \E selected_ids \in SUBSET KbContractIds : kb = KbInit(selected_ids)
    /\ crawl = None

NextKb ==
    \/ KbReadLine
    \/ KbEmbedRaises
    \/ KbEndOfFile

SpecKb == InitKb /\ [][NextKb]_vars

\* the records of the selected contracts among those read, in file order
KbSelected ==
    SelectSeq(kb.file, LAMBDA rec : rec.contract_id \in kb.selected_ids)

\* the points sent so far, in the order they were sent
KbSent == Flatten(kb.upserts)

RECURSIVE SumLen(_)
SumLen(batches) ==
    IF batches = <<>> THEN 0 ELSE Len(Head(batches)) + SumLen(Tail(batches))

\* C27: vectorize_sample_kb sends the records of the selected contracts,
\* and no other, once each and in file order: at the head of the loop the
\* points sent followed by the pending batch are the selected records read
\* so far, the pending batch has fewer than 32 points (a batch of 32 was
\* sent at once and the pending batch emptied), every batch sent in the
\* loop has exactly 32 points, and when the function has returned the
\* points sent are all the selected records of the file, the last batch
\* being the partial one, and the batch sizes add up to total_points.
C27_UpsertedOnce ==
    kb # None =>
        /\ \A b \in 1..Len(kb.upserts) :
             /\ kb.upserts[b] # <<>>
             /\ Len(kb.upserts[b]) <= batch_size
             /\ (b < Len(kb.upserts) \/ kb.pc # "done")
                    => Len(kb.upserts[b]) = batch_size
        /\ kb.pc = "loop" =>
             /\ KbSent \o kb.points_batch = KbSelected
             /\ Len(kb.points_batch) < batch_size
             /\ kb.total_points = Len(KbSent) + Len(kb.points_batch)
        /\ kb.pc = "done" =>
             /\ KbSent = KbSelected
             /\ SumLen(kb.upserts) = kb.total_points
             /\ kb.total_points = Len(KbSelected)

\* the function has returned after a full batch and a final partial batch,
\* having skipped a record of a contract that is not selected
C27_Witness ==
    /\ kb # None
    /\ kb.pc = "done"
    /\ Len(kb.upserts) = 2
    /\ Len(kb.upserts[1]) = batch_size
    /\ Len(kb.upserts[2]) = 1
    /\ Len(kb.file) > kb.total_points

\* ------------------------------------------------------------------------
\* paginate_contract_links and extract_contract_links (scraper/html.py)
\* ------------------------------------------------------------------------

MaxMaxPages == 3

\* An HTML page is the list of the values of its href attributes, and a
\* value is a string over: PREFIX, the text /contrato-publico/; the
\* characters "a" and "b"; ANYCHAR, any other character but a quote.
PREFIX == "/"
ANYCHAR == "x"

\* scraper/config.py: the constant every path is appended to
BASE_URL == <<"B">>

\* the code points of the characters, as far as their order goes
CharOrd(c) ==
    CASE c = "B" -> 0
      [] c = PREFIX -> 1
      [] c = "a" -> 2
      [] c = "b" -> 3
      [] c = ANYCHAR -> 4

RECURSIVE StrLess(_, _)
\* s < t for Python strings
StrLess(s, t) ==
    IF t = <<>> THEN FALSE
    ELSE IF s = <<>> THEN TRUE
    ELSE IF Head(s) # Head(t) THEN CharOrd(Head(s)) < CharOrd(Head(t))
    ELSE StrLess(Tail(s), Tail(t))

RECURSIVE sorted(_)
\* sorted(S) of a set of strings
sorted(S) ==
    IF S = {} THEN <<>>
    ELSE LET least == CHOOSE s \in S : \A t \in S \ {s} : StrLess(s, t)
         IN  <<least>> \o sorted(S \ {least})

\* the regular expression of line 26 on one href value: the prefix and at
\* least one more character
ContractPath(href) ==
    /\ Len(href) >= 2
    /\ Head(href) = PREFIX

\* html.py lines 26-28
extract_contract_links(html) ==
    LET matches == SelectSeq(html, ContractPath)
    IN  sorted({BASE_URL \o matches[i] : i \in 1..Len(matches)})

\* pages with no href, with hrefs that are no contract links, with one
\* link, with a link twice, and with links in and out of order
HtmlPool ==
    { <<>>,
      << <<ANYCHAR>>, <<PREFIX>> >>,
      << <<PREFIX, "a">> >>,
      << <<PREFIX, "b">>, <<ANYCHAR, PREFIX, "a">>, <<PREFIX, "b">> >>,
      << <<PREFIX, "b">>, <<PREFIX, "a", "a">>, <<PREFIX, "a">> >>,
      << <<PREFIX, "a">>, <<PREFIX, "a", PREFIX>> >> }

\* paginate_contract_links(base_url, max_pages, stop_when_empty) is called
CrawlInit(max_pages, stop_when_empty) ==
    [max_pages |-> max_pages,
     stop_when_empty |-> stop_when_empty,
     page |-> 0,            \* range(max_pages): the next value
     seen |-> {},
     fetched |-> <<>>,      \* the fetches made: [page, html]
     result |-> <<>>,
     pc |-> "loop"]

\* the loop goes on after a page without links
paginate_page_no_break(c, html) ==
    LET links == extract_contract_links(html)
    IN  [c EXCEPT !.fetched = Append(c.fetched,
                                     [page |-> c.page, html |-> html]),
                  !.seen = c.seen \cup {links[i] : i \in 1..Len(links)},
                  !.page = c.page + 1]

\* html.py lines 52-65: one iteration of "for page in range(max_pages)"
\* whose fetch answers with html
paginate_page(c, html) ==
    LET links == extract_contract_links(html)
        fetched == Append(c.fetched, [page |-> c.page, html |-> html])
        seen == c.seen \cup {links[i] : i \in 1..Len(links)}
    IN  IF c.stop_when_empty /\ Len(links) = 0
        THEN [c EXCEPT !.fetched = fetched, !.seen = seen, !.pc = "break"]
        ELSE [c EXCEPT !.fetched = fetched, !.seen = seen,
                       !.page = c.page + 1]

\* the next page is fetched and its links are collected
CrawlPage ==
    /\ crawl # None
    /\ crawl.pc = "loop"
    /\ crawl.page < crawl.max_pages
    /\ \E html \in HtmlPool : crawl' = paginate_page(crawl, html)
    /\ UNCHANGED <<entry, page_text, config, pc, text, lines, sg, li, segments,
                   cfg, pk, si, pre, result, shared, frames, gen, kb>>

\* html.py lines 15-16: the request fails or raise_for_status raises; the
\* function is left with the exception
CrawlFetchRaises ==
    /\ crawl # None
    /\ crawl.pc = "loop"
    /\ crawl.page < crawl.max_pages
    /\ crawl' = [crawl EXCEPT !.pc = "raised"]
    /\ UNCHANGED <<entry, page_text, config, pc, text, lines, sg, li, segments,
                   cfg, pk, si, pre, result, shared, frames, gen, kb>>

\* html.py line 67, after the break or at the end of the range
CrawlReturn ==
    /\ crawl # None
    /\ \/ crawl.pc = "break"
       \/ crawl.pc = "loop" /\ crawl.page >= crawl.max_pages
    /\ crawl' = [crawl EXCEPT !.result = sorted(crawl.seen), !.pc = "done"]
    /\ UNCHANGED <<entry, page_text, config, pc, text, lines, sg, li, segments,
                   cfg, pk, si, pre, result, shared, frames, gen, kb>>

InitCrawl ==
    /\ ChunkerIdle
    /\ gen = None
    /\ kb = None
    /\ \E max_pages \in -1..MaxMaxPages, stop_when_empty \in BOOLEAN :
         crawl = CrawlInit(max_pages, stop_when_empty)

NextCrawl ==
    \/ CrawlPage
    \/ CrawlFetchRaises
    \/ CrawlReturn

SpecCrawl == InitCrawl /\ [][NextCrawl]_vars

\* the contract links of a page: the base URL followed by an href value
\* that begins with the prefix and goes on
LinksOf(html) ==
    {BASE_URL \o html[i] : i \in {j \in 1..Len(html) : ContractPath(html[j])}}

\* the i-th fetch got a page without a contract link
EmptyFetch(i) == LinksOf(crawl.fetched[i].html) = {}

\* C28: paginate_contract_links fetches the pages 0, 1, 2, ... in this
\* order and never more than max_pages of them; with stop_when_empty no
\* page is fetched after the first one that has no contract link; and the
\* list it returns is in ascending order without duplicates and holds
\* exactly the links of the pages fetched, the loop having stopped only at
\* max_pages pages or at such an empty page.
C28_PagesInOrder ==
    crawl # None =>
        /\ \A i \in 1..Len(crawl.fetched) : crawl.fetched[i].page = i - 1
        /\ Len(crawl.fetched) <= IF crawl.max_pages > 0 THEN crawl.max_pages
                                 ELSE 0
        /\ crawl.stop_when_empty =>
             \A i \in 1..(Len(crawl.fetched) - 1) : ~EmptyFetch(i)
        /\ crawl.pc = "done" =>
             /\ \A i \in 1..(Len(crawl.result) - 1) :
                  StrLess(crawl.result[i], crawl.result[i + 1])
             /\ {crawl.result[i] : i \in 1..Len(crawl.result)}
                  = UNION {LinksOf(crawl.fetched[i].html) :
                              i \in 1..Len(crawl.fetched)}
             /\ \/ Len(crawl.fetched) = crawl.max_pages
                \/ crawl.max_pages <= 0 /\ crawl.fetched = <<>>
                \/ /\ crawl.stop_when_empty
                   /\ crawl.fetched # <<>>
                   /\ EmptyFetch(Len(crawl.fetched))

\* the crawl has returned three links after it stopped at an empty second
\* page, short of max_pages, the first page having its links out of order
C28_Witness ==
    /\ crawl # None
    /\ crawl.pc = "done"
    /\ crawl.stop_when_empty
    /\ Len(crawl.fetched) = 2
    /\ crawl.max_pages = 3
    /\ EmptyFetch(2)
    /\ crawl.fetched[2].html # <<>>
    /\ Len(crawl.result) = 3
    /\ crawl.fetched[1].html[1] = <<PREFIX, "b">>

====
